---- MODULE Spec2Model ----
(***************************************************************************)
(* Shared-memory latency demo (client side) of libmetal_amp_demo_client:   *)
(* shmem_latency_demo(), measure_shmem_latency(), ipi_irq_handler()        *)
(* (src/src/shmem_latency_demo.c) and wait_for_notified(), update_stat()   *)
(* (src/src/common.h).                                                     *)
(*                                                                         *)
(* The local CPU runs one thread of control (variable pc); the only        *)
(* asynchronous local code is the interrupt handler, which runs to         *)
(* completion as one step whenever the IPI vector is pending, enabled at   *)
(* the interrupt controller and not masked at the CPU.  The remote peer,   *)
(* the other IPI sources and the TTC counters are the environment.         *)
(***************************************************************************)
EXTENDS Integers, Sequences, FiniteSets, TLC

(* ---------------- program constants ---------------- *)
IPI_MASK == 256                 \* common.h:35   0x100
DEMO_STATUS_IDLE == 0           \* shmem_latency_demo.c:51
DEMO_STATUS_START == 1          \* shmem_latency_demo.c:52
PKG_SIZE_MIN == 16              \* shmem_latency_demo.c:57
PKG_SIZE_MAX == 1024            \* shmem_latency_demo.c:58
SHM_BUFF_OFFSET_TX == 4096      \* shmem_latency_demo.c:48  0x1000
SHM_BUFF_OFFSET_RX == 8192      \* shmem_latency_demo.c:49  0x2000
NS_PER_TTC_TICK == 10           \* shmem_latency_demo.c:44  1000000000 / 100000000
HDR_SIZE == 8                   \* shmem_latency_demo.c:68  sizeof(struct msg_hdr_s): two uint32_t
ENODEV == 19                    \* errno used at shmem_latency_demo.c:268
ERANGE == 34                    \* errno returned by the block I/O calls of lines 203, 216
METAL_IRQ_NOT_HANDLED == 0      \* shmem_latency_demo.c:152
METAL_IRQ_HANDLED == 1          \* shmem_latency_demo.c:149
\* ~0UL of STAT_INIT (common.h:111), at the width of the model's integers
ULONG_MAX == 2147483647

(* ---------------- bounds of the model ---------------- *)
\* the iteration count of one size bucket (the source fixes 1000, line 54)
ITERATIONS == 2
\* largest tick value a TTC counter read returns
MaxTick == 2
\* kicks the remote may raise without having been triggered
MaxUnsolicited == 1

\* samples given to update_stat on its own
MaxSamples == 4
\* largest of these samples
MaxSample == 3

\* a bit of the IPI status register owned by another IPI source
OTHER_IPI_BIT == 1
\* tick values a counter read may return
TickVals == {1, MaxTick}
\* sample values given to update_stat on its own
SampleVals == 0..MaxSample

\* sizes of the mapped shared-memory region the platform may provide
ShmSizes == {4096, 4112, 8200, 12288}
NoWrite == -1

(* ---------------- 32-bit register arithmetic ---------------- *)
RECURSIVE BitAnd(_, _)
BitAnd(a, b) ==
    IF a = 0 \/ b = 0 THEN 0
    ELSE (a % 2) * (b % 2) + 2 * BitAnd(a \div 2, b \div 2)

BitOr(a, b) == a + b - BitAnd(a, b)

\* a & ~m
BitClear(a, m) == a - BitAnd(a, m)

VARIABLES
    pc,               \* position of the thread of control
    dev,              \* which devices / I/O regions the platform provides
    shmSize,          \* size of the mapped shared-memory region
    ret,              \* shmem_latency_demo: ret
    mret,             \* measure_shmem_latency: ret
    s, i,             \* measure_shmem_latency: loop variables
    lbuf,             \* scratch buffer: its message header
    a2r, r2a,         \* struct metal_stat of the two directions
    cntrl,            \* shared memory: control word at SHM_DEMO_CNTRL_OFFSET
    shmTx, shmRx,     \* shared memory: header in the TX / RX zone
    ISR, IMR,         \* IPI interrupt status / mask register
    remotePending,    \* IPI trigger raised towards the remote, not yet served
    remote_nkicked,   \* ch.remote_nkicked
    ipi_mask,         \* ch.ipi_mask
    registered,       \* ipi_irq_handler is registered on the IPI vector
    irqEnabled,       \* the IPI vector is enabled at the interrupt controller
    cpuIrqMasked,     \* interrupts are masked at the CPU
    flags,            \* wait_for_notified: flags
    hret, hwrite,     \* last handler call: return value, value written to ISR
    report,           \* the report line being emitted, or the empty sequence
    \* ---- observation (history) ----
    ops,              \* device operations of the current iteration, in order
    sessOps,          \* setup / teardown operations of the session, in order
    trigCount,        \* writes to the IPI trigger register
    idleTrigs,        \* of these, the ones made while the control word is idle
    msgWrites,        \* block writes to the TX zone
    msgReads,         \* block reads of the RX zone
    outstanding,      \* a trigger was issued and no wait has returned since
    reported,         \* sizes for which a report was emitted, in order
    abortKind,        \* "none", "alloc", "write", "reply"
    startedWritten,   \* the control word was written with DEMO_STATUS_START
    unsolicited,      \* kicks the remote raised without a trigger
    waitReturns,      \* returns of wait_for_notified
    flagClears,       \* handler calls that cleared remote_nkicked
    \* ---- update_stat on its own ----
    acc,              \* the struct metal_stat update_stat is applied to
    samples           \* the values it was given, in order

vars == <<pc, acc, samples, dev, shmSize, ret, mret, s, i, lbuf, a2r, r2a, cntrl, shmTx, shmRx,
          ISR, IMR, remotePending, remote_nkicked, ipi_mask, registered,
          irqEnabled, cpuIrqMasked, flags, hret, hwrite, flagClears, report, ops, sessOps,
          trigCount, idleTrigs, msgWrites, msgReads, outstanding, waitReturns, reported,
          abortKind, startedWritten, unsolicited>>

\* variables only the main thread changes
mainVars == <<pc, ret, mret, s, i, lbuf, a2r, r2a, cntrl, shmTx, ipi_mask,
              registered, irqEnabled, cpuIrqMasked, flags, report, ops, sessOps,
              trigCount, idleTrigs, msgWrites, msgReads, outstanding, waitReturns, reported,
              abortKind, startedWritten>>

STAT_INIT == [st_cnt |-> 0, st_sum |-> 0, st_min |-> ULONG_MAX, st_max |-> 0]

\* update_stat with the comparison of the minimum turned around
update_stat_minSwapped(pst, val) ==
    [st_cnt |-> pst.st_cnt + 1,
     st_sum |-> pst.st_sum + val,
     st_min |-> IF pst.st_min < val THEN val ELSE pst.st_min,
     st_max |-> IF pst.st_max < val THEN val ELSE pst.st_max]

update_stat(pst, val) ==
    [st_cnt |-> pst.st_cnt + 1,
     st_sum |-> pst.st_sum + val,
     st_min |-> IF pst.st_min > val THEN val ELSE pst.st_min,
     st_max |-> IF pst.st_max < val THEN val ELSE pst.st_max]

Hdr(index, len) == [index |-> index, len |-> len]

Init ==
    /\ pc = "start"
    /\ dev \in [shm_dev : BOOLEAN, shm_io : BOOLEAN, ttc_io : BOOLEAN, ipi_io : BOOLEAN]
    /\ shmSize \in ShmSizes
    /\ ret = 0
    /\ mret = 0
    /\ s = 0
    /\ i = 0
    /\ lbuf = Hdr(0, 0)
    /\ a2r = STAT_INIT
    /\ r2a = STAT_INIT
    /\ cntrl = DEMO_STATUS_IDLE
    /\ shmTx = Hdr(0, 0)
    /\ shmRx = Hdr(0, 0)
    /\ ISR \in {0, IPI_MASK}
    /\ IMR \in {0, IPI_MASK}
    /\ remotePending = FALSE
    /\ remote_nkicked = FALSE
    /\ ipi_mask = 0
    /\ registered = FALSE
    /\ irqEnabled = FALSE
    /\ cpuIrqMasked = FALSE
    /\ flags = FALSE
    /\ hret = METAL_IRQ_NOT_HANDLED
    /\ hwrite = NoWrite
    /\ report = <<>>
    /\ ops = <<>>
    /\ sessOps = <<>>
    /\ trigCount = 0
    /\ idleTrigs = 0
    /\ msgWrites = 0
    /\ msgReads = 0
    /\ outstanding = FALSE
    /\ reported = <<>>
    /\ abortKind = "none"
    /\ startedWritten = FALSE
    /\ unsolicited = 0
    /\ waitReturns = 0
    /\ flagClears = 0
    /\ acc = STAT_INIT
    /\ samples = <<>>

(* ---------------- shmem_latency_demo: setup ---------------- *)

\* AcquireDevices with the check of the IPI region (lines 288-294) left out
AcquireDevices_noIpiCheck ==
    /\ pc = "start"
    /\ IF dev.shm_dev /\ dev.shm_io /\ dev.ttc_io
       THEN pc' = "init_flag" /\ ret' = ret
       ELSE pc' = "done" /\ ret' = -ENODEV
    /\ UNCHANGED <<acc, samples, dev, shmSize, mret, s, i, lbuf, a2r, r2a, cntrl, shmTx, shmRx,
                   ISR, IMR, remotePending, remote_nkicked, ipi_mask, registered,
                   irqEnabled, cpuIrqMasked, flags, hret, hwrite, flagClears, report, ops,
                   sessOps, trigCount, idleTrigs, msgWrites, msgReads,
                   outstanding, waitReturns, reported, abortKind, startedWritten, unsolicited>>

\* lines 264-294: memset(&ch, 0), then the four acquisitions, each failing
\* with ret = -ENODEV and goto out
AcquireDevices ==
    /\ pc = "start"
    /\ IF dev.shm_dev /\ dev.shm_io /\ dev.ttc_io /\ dev.ipi_io
       THEN pc' = "init_flag" /\ ret' = ret
       ELSE pc' = "done" /\ ret' = -ENODEV
    /\ UNCHANGED <<acc, samples, dev, shmSize, mret, s, i, lbuf, a2r, r2a, cntrl, shmTx, shmRx,
                   ISR, IMR, remotePending, remote_nkicked, ipi_mask, registered,
                   irqEnabled, cpuIrqMasked, flags, hret, hwrite, flagClears, report, ops,
                   sessOps, trigCount, idleTrigs, msgWrites, msgReads,
                   outstanding, waitReturns, reported, abortKind, startedWritten, unsolicited>>

\* lines 297-298: atomic_flag_clear then atomic_flag_test_and_set
InitFlag ==
    /\ pc = "init_flag"
    /\ remote_nkicked' = TRUE
    /\ sessOps' = Append(sessOps, "ARM")
    /\ pc' = "idr"
    /\ UNCHANGED <<acc, samples, dev, shmSize, ret, mret, s, i, lbuf, a2r, r2a, cntrl, shmTx,
                   shmRx, ISR, IMR, remotePending, ipi_mask, registered,
                   irqEnabled, cpuIrqMasked, flags, hret, hwrite, flagClears, report, ops,
                   trigCount, idleTrigs, msgWrites, msgReads, outstanding, waitReturns,
                   reported, abortKind, startedWritten, unsolicited>>

\* line 301: write IPI_MASK to the interrupt disable register
DisableIpi ==
    /\ pc = "idr"
    /\ IMR' = BitOr(IMR, IPI_MASK)
    /\ sessOps' = Append(sessOps, "IDR")
    /\ pc' = "isr_clear"
    /\ UNCHANGED <<acc, samples, dev, shmSize, ret, mret, s, i, lbuf, a2r, r2a, cntrl, shmTx,
                   shmRx, ISR, remotePending, remote_nkicked, ipi_mask,
                   registered, irqEnabled, cpuIrqMasked, flags, hret, hwrite, flagClears,
                   report, ops, trigCount, idleTrigs, msgWrites, msgReads,
                   outstanding, waitReturns, reported, abortKind, startedWritten, unsolicited>>

\* ClearOldIpi without the write to the status register
ClearOldIpi_missing ==
    /\ pc = "isr_clear"
    /\ ISR' = ISR
    /\ ipi_mask' = IPI_MASK
    /\ sessOps' = Append(sessOps, "ISR")
    /\ pc' = "register"
    /\ UNCHANGED <<acc, samples, dev, shmSize, ret, mret, s, i, lbuf, a2r, r2a, cntrl, shmTx,
                   shmRx, IMR, remotePending, remote_nkicked, registered,
                   irqEnabled, cpuIrqMasked, flags, hret, hwrite, flagClears, report, ops,
                   trigCount, idleTrigs, msgWrites, msgReads, outstanding, waitReturns,
                   reported, abortKind, startedWritten, unsolicited>>

\* lines 303-305: write IPI_MASK to the status register (write one to clear),
\* then ch.ipi_mask = IPI_MASK
ClearOldIpi ==
    /\ pc = "isr_clear"
    /\ ISR' = BitClear(ISR, IPI_MASK)
    /\ ipi_mask' = IPI_MASK
    /\ sessOps' = Append(sessOps, "ISR")
    /\ pc' = "register"
    /\ UNCHANGED <<acc, samples, dev, shmSize, ret, mret, s, i, lbuf, a2r, r2a, cntrl, shmTx,
                   shmRx, IMR, remotePending, remote_nkicked, registered,
                   irqEnabled, cpuIrqMasked, flags, hret, hwrite, flagClears, report, ops,
                   trigCount, idleTrigs, msgWrites, msgReads, outstanding, waitReturns,
                   reported, abortKind, startedWritten, unsolicited>>

\* line 311: metal_irq_register(ipi_irq, ipi_irq_handler, &ch)
RegisterHandler ==
    /\ pc = "register"
    /\ registered' = TRUE
    /\ sessOps' = Append(sessOps, "REG")
    /\ pc' = "irq_enable"
    /\ UNCHANGED <<acc, samples, dev, shmSize, ret, mret, s, i, lbuf, a2r, r2a, cntrl, shmTx,
                   shmRx, ISR, IMR, remotePending, remote_nkicked, ipi_mask,
                   irqEnabled, cpuIrqMasked, flags, hret, hwrite, flagClears, report, ops,
                   trigCount, idleTrigs, msgWrites, msgReads, outstanding, waitReturns,
                   reported, abortKind, startedWritten, unsolicited>>

\* line 312: metal_irq_enable(ipi_irq)
IrqEnable ==
    /\ pc = "irq_enable"
    /\ irqEnabled' = TRUE
    /\ sessOps' = Append(sessOps, "IRQEN")
    /\ pc' = "ier"
    /\ UNCHANGED <<acc, samples, dev, shmSize, ret, mret, s, i, lbuf, a2r, r2a, cntrl, shmTx,
                   shmRx, ISR, IMR, remotePending, remote_nkicked, ipi_mask,
                   registered, cpuIrqMasked, flags, hret, hwrite, flagClears, report, ops,
                   trigCount, idleTrigs, msgWrites, msgReads, outstanding, waitReturns,
                   reported, abortKind, startedWritten, unsolicited>>

\* line 315: write IPI_MASK to the interrupt enable register
EnableIpi ==
    /\ pc = "ier"
    /\ IMR' = BitClear(IMR, IPI_MASK)
    /\ sessOps' = Append(sessOps, "IER")
    /\ pc' = "alloc"
    /\ UNCHANGED <<acc, samples, dev, shmSize, ret, mret, s, i, lbuf, a2r, r2a, cntrl, shmTx,
                   shmRx, ISR, remotePending, remote_nkicked, ipi_mask,
                   registered, irqEnabled, cpuIrqMasked, flags, hret, hwrite, flagClears,
                   report, ops, trigCount, idleTrigs, msgWrites, msgReads,
                   outstanding, waitReturns, reported, abortKind, startedWritten, unsolicited>>

(* ---------------- groups of variables, for UNCHANGED ---------------- *)
platVars == <<dev, shmSize, unsolicited, acc, samples>>
hndVars == <<hret, hwrite, flagClears>>
irqVars == <<ipi_mask, registered, irqEnabled>>
statVars == <<a2r, r2a>>
countVars == <<trigCount, idleTrigs, msgWrites, msgReads>>

(* ---------------- block I/O on the shared-memory region ---------------- *)

\* metal_io_block_write / metal_io_block_read as called at lines 203 and 216:
\* the number of bytes transferred, cut at the end of the region, or -ERANGE
\* when the offset lies outside the region
block_io(size, offset, len) ==
    IF offset >= size THEN -ERANGE
    ELSE IF offset + len > size THEN size - offset
    ELSE len

\* the header that results from copying the first n bytes of src over dst
\* (struct msg_hdr_s: index in bytes 0..3, len in bytes 4..7)
CopyHdr(dst, src, n) ==
    [index |-> IF n >= 4 THEN src.index ELSE dst.index,
     len   |-> IF n >= HDR_SIZE THEN src.len ELSE dst.len]

(* ---------------- measure_shmem_latency ---------------- *)

\* Allocate with the control word written before the buffer is checked
Allocate_startFirst ==
    /\ pc = "alloc"
    /\ cntrl' = DEMO_STATUS_START
    /\ startedWritten' = TRUE
    /\ \E ok \in BOOLEAN :
         IF ok
         THEN pc' = "wr_start" /\ UNCHANGED <<ret, abortKind>>
         ELSE pc' = "td_idr" /\ ret' = -1 /\ abortKind' = "alloc"
    /\ UNCHANGED <<platVars, hndVars, irqVars, statVars, countVars, mret, s, i,
                   lbuf, shmTx, shmRx, ISR, IMR, remotePending,
                   remote_nkicked, cpuIrqMasked, flags, report, ops, sessOps,
                   outstanding, waitReturns, reported>>

\* lines 182-187: metal_allocate_memory; on failure return -1 (which line 318
\* stores in ret)
Allocate ==
    /\ pc = "alloc"
    /\ \E ok \in BOOLEAN :
         IF ok
         THEN pc' = "wr_start" /\ UNCHANGED <<ret, abortKind>>
         ELSE pc' = "td_idr" /\ ret' = -1 /\ abortKind' = "alloc"
    /\ UNCHANGED <<platVars, hndVars, irqVars, statVars, countVars, mret, s, i,
                   lbuf, cntrl, shmTx, shmRx, ISR, IMR, remotePending,
                   remote_nkicked, cpuIrqMasked, flags, report, ops, sessOps,
                   outstanding, waitReturns, reported, startedWritten>>

\* line 190, and the initialisation s = PKG_SIZE_MIN of line 192
WriteStart ==
    /\ pc = "wr_start"
    /\ cntrl' = DEMO_STATUS_START
    /\ startedWritten' = TRUE
    /\ s' = PKG_SIZE_MIN
    /\ pc' = "size_head"
    /\ UNCHANGED <<platVars, hndVars, irqVars, statVars, countVars, ret, mret, i,
                   lbuf, shmTx, shmRx, ISR, IMR, remotePending, remote_nkicked,
                   cpuIrqMasked, flags, report, ops, sessOps, outstanding, waitReturns,
                   reported, abortKind>>

\* lines 192-195: the test of the size loop, STAT_INIT of both accumulators,
\* i = 1
SizeLoop ==
    /\ pc = "size_head"
    /\ report' = <<>>
    /\ IF s <= PKG_SIZE_MAX
       THEN /\ a2r' = STAT_INIT
            /\ r2a' = STAT_INIT
            /\ i' = 1
            /\ pc' = "iter_head"
       ELSE /\ pc' = "wr_idle"
            /\ UNCHANGED <<a2r, r2a, i>>
    /\ UNCHANGED <<platVars, hndVars, irqVars, countVars, ret, mret, s, lbuf,
                   cntrl, shmTx, shmRx, ISR, IMR, remotePending, remote_nkicked,
                   cpuIrqMasked, flags, ops, sessOps, outstanding, waitReturns, reported,
                   abortKind, startedWritten>>

\* IterLoop with the test i < ITERATIONS
IterLoop_oneShort ==
    /\ pc = "iter_head"
    /\ pc' = IF i < ITERATIONS THEN "reset_timer" ELSE "report"
    /\ UNCHANGED <<platVars, hndVars, irqVars, statVars, countVars, ret, mret, s,
                   i, lbuf, cntrl, shmTx, shmRx, ISR, IMR, remotePending,
                   remote_nkicked, cpuIrqMasked, flags, report, ops, sessOps,
                   outstanding, waitReturns, reported, abortKind, startedWritten>>

\* line 195: the test i <= ITERATIONS
IterLoop ==
    /\ pc = "iter_head"
    /\ pc' = IF i <= ITERATIONS THEN "reset_timer" ELSE "report"
    /\ UNCHANGED <<platVars, hndVars, irqVars, statVars, countVars, ret, mret, s,
                   i, lbuf, cntrl, shmTx, shmRx, ISR, IMR, remotePending,
                   remote_nkicked, cpuIrqMasked, flags, report, ops, sessOps,
                   outstanding, waitReturns, reported, abortKind, startedWritten>>

\* line 197: reset_timer(ch->ttc_io, TTC_CNT_APU_TO_RPU); the first device
\* operation of an iteration
ResetTimer ==
    /\ pc = "reset_timer"
    /\ ops' = <<"ttc_reset">>
    /\ pc' = "block_write"
    /\ UNCHANGED <<platVars, hndVars, irqVars, statVars, countVars, ret, mret, s,
                   i, lbuf, cntrl, shmTx, shmRx, ISR, IMR, remotePending,
                   remote_nkicked, cpuIrqMasked, flags, report, sessOps,
                   outstanding, waitReturns, reported, abortKind, startedWritten>>

\* lines 199-210: the header is built in lbuf, s bytes are written to the TX
\* zone; a transfer of another size sets ret = -1 and leaves by goto out
BlockWrite ==
    /\ pc = "block_write"
    /\ LET hdr == Hdr(i, s - HDR_SIZE)
           n == block_io(shmSize, SHM_BUFF_OFFSET_TX, s)
       IN /\ lbuf' = hdr
          /\ shmTx' = CopyHdr(shmTx, hdr, n)
          /\ msgWrites' = msgWrites + 1
          /\ ops' = Append(ops, "shm_write")
          /\ IF n # s
             THEN mret' = -1 /\ abortKind' = "write" /\ pc' = "out"
             ELSE mret' = n /\ abortKind' = abortKind /\ pc' = "trigger"
    /\ UNCHANGED <<platVars, hndVars, irqVars, statVars, ret, s, i, cntrl, shmRx,
                   ISR, IMR, remotePending, remote_nkicked, cpuIrqMasked, flags,
                   report, sessOps, trigCount, idleTrigs, msgReads, outstanding, waitReturns,
                   reported, startedWritten>>

\* a write of ch->ipi_mask to the IPI trigger register (lines 212 and 248)
IpiTrigger ==
    /\ remotePending' = TRUE
    /\ trigCount' = trigCount + 1
    /\ idleTrigs' = IF cntrl = DEMO_STATUS_IDLE THEN idleTrigs + 1 ELSE idleTrigs
    /\ outstanding' = TRUE
    /\ waitReturns' = waitReturns

\* Trigger with the call of wait_for_notified (line 214) left out
Trigger_noWait ==
    /\ pc = "trigger"
    /\ IpiTrigger
    /\ ops' = Append(ops, "ipi_trig")
    /\ pc' = "block_read"
    /\ UNCHANGED <<platVars, hndVars, irqVars, statVars, ret, mret, s, i, lbuf,
                   cntrl, shmTx, shmRx, ISR, IMR, remote_nkicked, cpuIrqMasked,
                   flags, report, sessOps, msgWrites, msgReads, reported,
                   abortKind, startedWritten>>

\* line 212
Trigger ==
    /\ pc = "trigger"
    /\ IpiTrigger
    /\ ops' = Append(ops, "ipi_trig")
    /\ pc' = "w_disable"
    /\ UNCHANGED <<platVars, hndVars, irqVars, statVars, ret, mret, s, i, lbuf,
                   cntrl, shmTx, shmRx, ISR, IMR, remote_nkicked, cpuIrqMasked,
                   flags, report, sessOps, msgWrites, msgReads, reported,
                   abortKind, startedWritten>>

(* ---------------- wait_for_notified (line 214) ---------------- *)

\* the IPI vector is asserted at the interrupt controller
IrqPending == irqEnabled /\ BitClear(ISR, IMR) # 0

\* W_disable with the interrupt state saved but interrupts left enabled
W_disable_unmasked ==
    /\ pc = "w_disable"
    /\ flags' = cpuIrqMasked
    /\ pc' = "w_tas"
    /\ UNCHANGED <<platVars, hndVars, irqVars, statVars, countVars, ret, mret, s,
                   i, lbuf, cntrl, shmTx, shmRx, ISR, IMR, remotePending,
                   remote_nkicked, cpuIrqMasked, report, ops, sessOps,
                   outstanding, waitReturns, reported, abortKind, startedWritten>>

\* common.h line 82: flags = metal_irq_save_disable()
W_disable ==
    /\ pc = "w_disable"
    /\ flags' = cpuIrqMasked
    /\ cpuIrqMasked' = TRUE
    /\ pc' = "w_tas"
    /\ UNCHANGED <<platVars, hndVars, irqVars, statVars, countVars, ret, mret, s,
                   i, lbuf, cntrl, shmTx, shmRx, ISR, IMR, remotePending,
                   remote_nkicked, report, ops, sessOps, outstanding, waitReturns, reported,
                   abortKind, startedWritten>>

\* W_tas with the test inverted: the loop is left when the flag was set
W_tas_inverted ==
    /\ pc = "w_tas"
    /\ remote_nkicked' = TRUE
    /\ IF remote_nkicked
       THEN /\ cpuIrqMasked' = flags
            /\ ops' = Append(ops, "wait_ret")
            /\ outstanding' = FALSE
            /\ waitReturns' = waitReturns + 1
            /\ pc' = "block_read"
       ELSE /\ pc' = "w_wfi"
            /\ UNCHANGED <<cpuIrqMasked, ops, outstanding, waitReturns>>
    /\ UNCHANGED <<platVars, hndVars, irqVars, statVars, countVars, ret, mret, s,
                   i, lbuf, cntrl, shmTx, shmRx, ISR, IMR, remotePending, flags,
                   report, sessOps, reported, abortKind, startedWritten>>

\* W_tas with the flag only tested, not set
W_tas_noRearm ==
    /\ pc = "w_tas"
    /\ remote_nkicked' = remote_nkicked
    /\ IF ~remote_nkicked
       THEN /\ cpuIrqMasked' = flags
            /\ ops' = Append(ops, "wait_ret")
            /\ outstanding' = FALSE
            /\ waitReturns' = waitReturns + 1
            /\ pc' = "block_read"
       ELSE /\ pc' = "w_wfi"
            /\ UNCHANGED <<cpuIrqMasked, ops, outstanding, waitReturns>>
    /\ UNCHANGED <<platVars, hndVars, irqVars, statVars, countVars, ret, mret, s,
                   i, lbuf, cntrl, shmTx, shmRx, ISR, IMR, remotePending, flags,
                   report, sessOps, reported, abortKind, startedWritten>>

\* common.h lines 83-86: atomic_flag_test_and_set; when the flag was clear,
\* restore the interrupt state and leave the loop
W_tas ==
    /\ pc = "w_tas"
    /\ remote_nkicked' = TRUE
    /\ IF ~remote_nkicked
       THEN /\ cpuIrqMasked' = flags
            /\ ops' = Append(ops, "wait_ret")
            /\ outstanding' = FALSE
            /\ waitReturns' = waitReturns + 1
            /\ pc' = "block_read"
       ELSE /\ pc' = "w_wfi"
            /\ UNCHANGED <<cpuIrqMasked, ops, outstanding, waitReturns>>
    /\ UNCHANGED <<platVars, hndVars, irqVars, statVars, countVars, ret, mret, s,
                   i, lbuf, cntrl, shmTx, shmRx, ISR, IMR, remotePending, flags,
                   report, sessOps, reported, abortKind, startedWritten>>

\* common.h lines 65-69, 87: wfi completes when an interrupt is pending,
\* whether or not the CPU masks it
W_wfi ==
    /\ pc = "w_wfi"
    /\ IrqPending
    /\ pc' = "w_restore"
    /\ UNCHANGED <<platVars, hndVars, irqVars, statVars, countVars, ret, mret, s,
                   i, lbuf, cntrl, shmTx, shmRx, ISR, IMR, remotePending,
                   remote_nkicked, cpuIrqMasked, flags, report, ops, sessOps,
                   outstanding, waitReturns, reported, abortKind, startedWritten>>

\* common.h lines 65-69, 87: wfi may also complete on any other wake-up event
W_wfiOtherWake ==
    /\ pc = "w_wfi"
    /\ ~IrqPending
    /\ pc' = "w_restore"
    /\ UNCHANGED <<platVars, hndVars, irqVars, statVars, countVars, ret, mret, s,
                   i, lbuf, cntrl, shmTx, shmRx, ISR, IMR, remotePending,
                   remote_nkicked, cpuIrqMasked, flags, report, ops, sessOps,
                   outstanding, waitReturns, reported, abortKind, startedWritten>>

\* common.h line 88: metal_irq_restore_enable(flags), then the loop repeats
W_restore ==
    /\ pc = "w_restore"
    /\ cpuIrqMasked' = flags
    /\ pc' = "w_disable"
    /\ UNCHANGED <<platVars, hndVars, irqVars, statVars, countVars, ret, mret, s,
                   i, lbuf, cntrl, shmTx, shmRx, ISR, IMR, remotePending,
                   remote_nkicked, flags, report, ops, sessOps, outstanding, waitReturns,
                   reported, abortKind, startedWritten>>

(* ---------------- measure_shmem_latency, after the wait ---------------- *)

\* lines 216-218: metal_io_block_read of s bytes from the RX zone into lbuf;
\* the value it returns is not used
BlockRead ==
    /\ pc = "block_read"
    /\ lbuf' = CopyHdr(lbuf, shmRx, block_io(shmSize, SHM_BUFF_OFFSET_RX, s))
    /\ msgReads' = msgReads + 1
    /\ ops' = Append(ops, "shm_read")
    /\ pc' = "verify"
    /\ UNCHANGED <<platVars, hndVars, irqVars, statVars, ret, mret, s, i, cntrl,
                   shmTx, shmRx, ISR, IMR, remotePending, remote_nkicked,
                   cpuIrqMasked, flags, report, sessOps, trigCount, idleTrigs,
                   msgWrites, outstanding, waitReturns, reported, abortKind, startedWritten>>

\* Verify with the length check left out
Verify_unchecked ==
    /\ pc = "verify"
    /\ ops' = Append(ops, "verify_ok")
    /\ pc' = "stop_timer"
    /\ UNCHANGED <<platVars, hndVars, irqVars, statVars, countVars, ret, mret, s,
                   i, lbuf, cntrl, shmTx, shmRx, ISR, IMR, remotePending,
                   remote_nkicked, cpuIrqMasked, flags, report, sessOps,
                   outstanding, waitReturns, reported, abortKind, startedWritten>>

\* lines 219-225: the length check of the header now in lbuf; on a mismatch
\* ret = -1 and goto out
Verify ==
    /\ pc = "verify"
    /\ IF lbuf.len # s - HDR_SIZE
       THEN /\ mret' = -1
            /\ abortKind' = "reply"
            /\ ops' = Append(ops, "verify_fail")
            /\ pc' = "out"
       ELSE /\ ops' = Append(ops, "verify_ok")
            /\ pc' = "stop_timer"
            /\ UNCHANGED <<mret, abortKind>>
    /\ UNCHANGED <<platVars, hndVars, irqVars, statVars, countVars, ret, s, i,
                   lbuf, cntrl, shmTx, shmRx, ISR, IMR, remotePending,
                   remote_nkicked, cpuIrqMasked, flags, report, sessOps,
                   outstanding, waitReturns, reported, startedWritten>>

\* StopTimer followed by the second update_stat only
StopTimer_oneSample ==
    /\ pc = "stop_timer"
    /\ ops' = Append(ops, "ttc_stop")
    /\ pc' = "stat_r2a"
    /\ UNCHANGED <<platVars, hndVars, irqVars, statVars, countVars, ret, mret, s,
                   i, lbuf, cntrl, shmTx, shmRx, ISR, IMR, remotePending,
                   remote_nkicked, cpuIrqMasked, flags, report, sessOps,
                   outstanding, waitReturns, reported, abortKind, startedWritten>>

\* line 227: stop_timer(ch->ttc_io, TTC_CNT_RPU_TO_APU)
StopTimer ==
    /\ pc = "stop_timer"
    /\ ops' = Append(ops, "ttc_stop")
    /\ pc' = "stat_a2r"
    /\ UNCHANGED <<platVars, hndVars, irqVars, statVars, countVars, ret, mret, s,
                   i, lbuf, cntrl, shmTx, shmRx, ISR, IMR, remotePending,
                   remote_nkicked, cpuIrqMasked, flags, report, sessOps,
                   outstanding, waitReturns, reported, abortKind, startedWritten>>

\* lines 229-230: update_stat(&a2r, read_timer(ch->ttc_io, TTC_CNT_APU_TO_RPU))
StatA2R ==
    /\ pc = "stat_a2r"
    /\ \E t \in TickVals : a2r' = update_stat(a2r, t)
    /\ ops' = Append(ops, "stat_a2r")
    /\ pc' = "stat_r2a"
    /\ UNCHANGED <<platVars, hndVars, irqVars, countVars, ret, mret, s, i, lbuf,
                   r2a, cntrl, shmTx, shmRx, ISR, IMR, remotePending,
                   remote_nkicked, cpuIrqMasked, flags, report, sessOps,
                   outstanding, waitReturns, reported, abortKind, startedWritten>>

\* lines 231-232: update_stat(&r2a, read_timer(ch->ttc_io, TTC_CNT_RPU_TO_APU)),
\* then i++ of line 195
StatR2A ==
    /\ pc = "stat_r2a"
    /\ \E t \in TickVals : r2a' = update_stat(r2a, t)
    /\ ops' = Append(ops, "stat_r2a")
    /\ i' = i + 1
    /\ pc' = "iter_head"
    /\ UNCHANGED <<platVars, hndVars, irqVars, countVars, ret, mret, s, lbuf, a2r,
                   cntrl, shmTx, shmRx, ISR, IMR, remotePending, remote_nkicked,
                   cpuIrqMasked, flags, report, sessOps, outstanding, waitReturns, reported,
                   abortKind, startedWritten>>

\* the average printed at lines 239 and 242
ReportedAvg(st) == (st.st_sum * NS_PER_TTC_TICK) \div ITERATIONS

\* Report with the size advanced by PKG_SIZE_MIN instead of doubled
Report_sizeStep ==
    /\ pc = "report"
    /\ report' = <<[size |-> s,
                    a2r_min |-> a2r.st_min, a2r_max |-> a2r.st_max,
                    a2r_avg |-> ReportedAvg(a2r),
                    r2a_min |-> r2a.st_min, r2a_max |-> r2a.st_max,
                    r2a_avg |-> ReportedAvg(r2a)]>>
    /\ reported' = Append(reported, s)
    /\ s' = s + PKG_SIZE_MIN
    /\ pc' = "size_head"
    /\ UNCHANGED <<platVars, hndVars, irqVars, statVars, countVars, ret, mret, i,
                   lbuf, cntrl, shmTx, shmRx, ISR, IMR, remotePending,
                   remote_nkicked, cpuIrqMasked, flags, ops, sessOps,
                   outstanding, waitReturns, abortKind, startedWritten>>

\* lines 236-242: the report of one size, then s <<= 1 of line 192
Report ==
    /\ pc = "report"
    /\ report' = <<[size |-> s,
                    a2r_min |-> a2r.st_min, a2r_max |-> a2r.st_max,
                    a2r_avg |-> ReportedAvg(a2r),
                    r2a_min |-> r2a.st_min, r2a_max |-> r2a.st_max,
                    r2a_avg |-> ReportedAvg(r2a)]>>
    /\ reported' = Append(reported, s)
    /\ s' = s * 2
    /\ pc' = "size_head"
    /\ UNCHANGED <<platVars, hndVars, irqVars, statVars, countVars, ret, mret, i,
                   lbuf, cntrl, shmTx, shmRx, ISR, IMR, remotePending,
                   remote_nkicked, cpuIrqMasked, flags, ops, sessOps,
                   outstanding, waitReturns, abortKind, startedWritten>>

\* line 246: write 0 to the control word
WriteIdle ==
    /\ pc = "wr_idle"
    /\ cntrl' = 0
    /\ pc' = "final_trigger"
    /\ UNCHANGED <<platVars, hndVars, irqVars, statVars, countVars, ret, mret, s,
                   i, lbuf, shmTx, shmRx, ISR, IMR, remotePending,
                   remote_nkicked, cpuIrqMasked, flags, report, ops, sessOps,
                   outstanding, waitReturns, reported, abortKind, startedWritten>>

\* FinalTrigger without the write to the trigger register
FinalTrigger_missing ==
    /\ pc = "final_trigger"
    /\ pc' = "out"
    /\ UNCHANGED <<platVars, hndVars, irqVars, statVars, countVars, ret, mret, s,
                   i, lbuf, cntrl, shmTx, shmRx, ISR, IMR, remotePending,
                   remote_nkicked, cpuIrqMasked, flags, report, ops, sessOps,
                   outstanding, waitReturns, reported, abortKind, startedWritten>>

\* line 248
FinalTrigger ==
    /\ pc = "final_trigger"
    /\ IpiTrigger
    /\ pc' = "out"
    /\ UNCHANGED <<platVars, hndVars, irqVars, statVars, ret, mret, s, i, lbuf,
                   cntrl, shmTx, shmRx, ISR, IMR, remote_nkicked, cpuIrqMasked,
                   flags, report, ops, sessOps, msgWrites, msgReads, reported,
                   abortKind, startedWritten>>

\* lines 252-254 and 318: out: metal_free_memory(lbuf); return 0; the caller
\* stores the value returned in its ret
MeasureOut ==
    /\ pc = "out"
    /\ ret' = 0
    /\ pc' = "td_idr"
    /\ UNCHANGED <<platVars, hndVars, irqVars, statVars, countVars, mret, s, i,
                   lbuf, cntrl, shmTx, shmRx, ISR, IMR, remotePending,
                   remote_nkicked, cpuIrqMasked, flags, report, ops, sessOps,
                   outstanding, waitReturns, reported, abortKind, startedWritten>>

(* ---------------- shmem_latency_demo: teardown ---------------- *)

\* TeardownDisableIpi without the write to the interrupt disable register
TeardownDisableIpi_missing ==
    /\ pc = "td_idr"
    /\ pc' = "td_irq_disable"
    /\ UNCHANGED <<platVars, hndVars, irqVars, statVars, countVars, ret, mret, s,
                   i, lbuf, cntrl, shmTx, shmRx, ISR, IMR, remotePending,
                   remote_nkicked, cpuIrqMasked, flags, report, ops, sessOps,
                   outstanding, waitReturns, reported, abortKind, startedWritten>>

\* line 321: write IPI_MASK to the interrupt disable register
TeardownDisableIpi ==
    /\ pc = "td_idr"
    /\ IMR' = BitOr(IMR, IPI_MASK)
    /\ sessOps' = Append(sessOps, "IDR")
    /\ pc' = "td_irq_disable"
    /\ UNCHANGED <<platVars, hndVars, irqVars, statVars, countVars, ret, mret, s,
                   i, lbuf, cntrl, shmTx, shmRx, ISR, remotePending,
                   remote_nkicked, cpuIrqMasked, flags, report, ops,
                   outstanding, waitReturns, reported, abortKind, startedWritten>>

\* line 323: metal_irq_disable(ipi_irq)
TeardownIrqDisable ==
    /\ pc = "td_irq_disable"
    /\ irqEnabled' = FALSE
    /\ sessOps' = Append(sessOps, "IRQDIS")
    /\ pc' = "td_unregister"
    /\ UNCHANGED <<platVars, hndVars, statVars, countVars, ret, mret, s, i, lbuf,
                   cntrl, shmTx, shmRx, ISR, IMR, remotePending, remote_nkicked,
                   ipi_mask, registered, cpuIrqMasked, flags, report, ops,
                   outstanding, waitReturns, reported, abortKind, startedWritten>>

\* lines 324-327: metal_irq_unregister(ipi_irq); return ret
TeardownUnregister ==
    /\ pc = "td_unregister"
    /\ registered' = FALSE
    /\ sessOps' = Append(sessOps, "UNREG")
    /\ pc' = "done"
    /\ UNCHANGED <<platVars, hndVars, statVars, countVars, ret, mret, s, i, lbuf,
                   cntrl, shmTx, shmRx, ISR, IMR, remotePending, remote_nkicked,
                   ipi_mask, irqEnabled, cpuIrqMasked, flags, report, ops,
                   outstanding, waitReturns, reported, abortKind, startedWritten>>

(* ---------------- ipi_irq_handler ---------------- *)

\* ipi_irq_handler acknowledging every bit it read instead of the channel's
ipi_irq_handler_ackAll(val, mask, nkicked) ==
    IF BitAnd(val, mask) # 0
    THEN [ret |-> METAL_IRQ_HANDLED, wr |-> val, nkicked |-> FALSE]
    ELSE [ret |-> METAL_IRQ_NOT_HANDLED, wr |-> NoWrite, nkicked |-> nkicked]

\* lines 138-153, for the status value val read at line 145: the value
\* returned, the value written to the status register (NoWrite: none) and the
\* resulting remote_nkicked
ipi_irq_handler(val, mask, nkicked) ==
    IF BitAnd(val, mask) # 0
    THEN [ret |-> METAL_IRQ_HANDLED, wr |-> mask, nkicked |-> FALSE]
    ELSE [ret |-> METAL_IRQ_NOT_HANDLED, wr |-> NoWrite, nkicked |-> nkicked]

\* IrqDeliver with the handler stopping the RPU to APU counter, as its
\* header comment (lines 126-128) describes
IrqDeliver_stopsTimer ==
    /\ registered
    /\ IrqPending
    /\ ~cpuIrqMasked
    /\ LET r == ipi_irq_handler(ISR, ipi_mask, remote_nkicked)
       IN /\ hret' = r.ret
          /\ hwrite' = r.wr
          /\ flagClears' = IF r.ret = METAL_IRQ_HANDLED
                           THEN flagClears + 1 ELSE flagClears
          /\ remote_nkicked' = r.nkicked
          /\ ISR' = IF r.wr = NoWrite THEN ISR ELSE BitClear(ISR, r.wr)
          /\ ops' = IF r.ret = METAL_IRQ_HANDLED
                    THEN Append(ops, "ttc_stop") ELSE ops
    /\ UNCHANGED <<pc, ret, mret, s, i, lbuf, a2r, r2a, cntrl, shmTx, ipi_mask,
                   registered, irqEnabled, cpuIrqMasked, flags, report, sessOps,
                   trigCount, idleTrigs, msgWrites, msgReads, outstanding,
                   waitReturns, reported, abortKind, startedWritten>>
    /\ UNCHANGED <<platVars, shmRx, IMR, remotePending>>

\* the interrupt controller calls the registered handler (line 311) when the
\* vector is pending and the CPU does not mask interrupts; a write to the
\* status register clears the bits written
IrqDeliver ==
    /\ registered
    /\ IrqPending
    /\ ~cpuIrqMasked
    /\ LET r == ipi_irq_handler(ISR, ipi_mask, remote_nkicked)
       IN /\ hret' = r.ret
          /\ hwrite' = r.wr
          /\ flagClears' = IF r.ret = METAL_IRQ_HANDLED
                           THEN flagClears + 1 ELSE flagClears
          /\ remote_nkicked' = r.nkicked
          /\ ISR' = IF r.wr = NoWrite THEN ISR ELSE BitClear(ISR, r.wr)
    /\ UNCHANGED <<mainVars, platVars, shmRx, IMR, remotePending>>

(* ---------------- environment ---------------- *)

\* the remote serves a trigger while the demo is started (steps 5-6 of the
\* file comment, lines 17-20): it places its reply in the RX zone and kicks
RemoteReply ==
    /\ remotePending
    /\ cntrl = DEMO_STATUS_START
    /\ remotePending' = FALSE
    /\ \E len \in {shmTx.len, shmTx.len + 1} : shmRx' = Hdr(shmTx.index, len)
    /\ ISR' = BitOr(ISR, IPI_MASK)
    /\ UNCHANGED <<mainVars, platVars, hndVars, IMR, remote_nkicked>>

\* the remote serves a trigger and finds the demo finished (step 9 of the
\* file comment, lines 23-24, 163-165): it leaves without a kick
RemoteExit ==
    /\ remotePending
    /\ cntrl = DEMO_STATUS_IDLE
    /\ remotePending' = FALSE
    /\ UNCHANGED <<mainVars, platVars, hndVars, shmRx, ISR, IMR, remote_nkicked>>

\* a kick the remote raises without having been triggered
RemoteUnsolicitedKick ==
    /\ unsolicited < MaxUnsolicited
    /\ pc # "done"
    /\ unsolicited' = unsolicited + 1
    /\ ISR' = BitOr(ISR, IPI_MASK)
    /\ UNCHANGED <<mainVars, hndVars, acc, samples, dev, shmSize, shmRx, IMR, remotePending,
                   remote_nkicked>>

\* another IPI source raises its bit of the status register (the case of
\* line 152), or the bit is acknowledged by its owner
OtherIpiRaise ==
    /\ BitAnd(ISR, OTHER_IPI_BIT) = 0
    /\ pc # "done"
    /\ ISR' = BitOr(ISR, OTHER_IPI_BIT)
    /\ UNCHANGED <<mainVars, platVars, hndVars, shmRx, IMR, remotePending,
                   remote_nkicked>>

OtherIpiAck ==
    /\ BitAnd(ISR, OTHER_IPI_BIT) # 0
    /\ ISR' = BitClear(ISR, OTHER_IPI_BIT)
    /\ UNCHANGED <<mainVars, platVars, hndVars, shmRx, IMR, remotePending,
                   remote_nkicked>>

(* ---------------- update_stat on its own ---------------- *)

\* common.h lines 119-127 applied to acc with one more sample
StatUpdate ==
    /\ Len(samples) < MaxSamples
    /\ \E val \in SampleVals :
         /\ acc' = update_stat(acc, val)
         /\ samples' = Append(samples, val)
    /\ UNCHANGED <<mainVars, hndVars, dev, shmSize, unsolicited, shmRx, ISR, IMR,
                   remotePending, remote_nkicked>>

\* a struct metal_stat initialised with STAT_INIT (common.h line 111), no
\* session running
StatInit ==
    /\ Init
    /\ dev = [shm_dev |-> FALSE, shm_io |-> FALSE, ttc_io |-> FALSE, ipi_io |-> FALSE]
    /\ shmSize = 12288
    /\ ISR = 0
    /\ IMR = IPI_MASK

StatNext == StatUpdate

StatSpec == StatInit /\ [][StatNext]_vars

(* ---------------- specification ---------------- *)

\* the instructions of the thread of control
Main ==
    \/ AcquireDevices \/ InitFlag \/ DisableIpi \/ ClearOldIpi
    \/ RegisterHandler \/ IrqEnable \/ EnableIpi
    \/ Allocate \/ WriteStart \/ SizeLoop \/ IterLoop \/ ResetTimer
    \/ BlockWrite \/ Trigger
    \/ W_disable \/ W_tas \/ W_wfi \/ W_restore
    \/ BlockRead \/ Verify \/ StopTimer \/ StatA2R \/ StatR2A \/ Report
    \/ WriteIdle \/ FinalTrigger \/ MeasureOut
    \/ TeardownDisableIpi \/ TeardownIrqDisable \/ TeardownUnregister

Environment ==
    \/ RemoteReply \/ RemoteExit \/ RemoteUnsolicitedKick
    \/ OtherIpiRaise \/ OtherIpiAck \/ W_wfiOtherWake

Next == Main \/ IrqDeliver \/ Environment

Spec == Init /\ [][Next]_vars

\* the environment in which the remote kicks only in reply to a trigger
ProtocolEnvironment ==
    \/ RemoteReply \/ RemoteExit
    \/ OtherIpiRaise \/ OtherIpiAck \/ W_wfiOtherWake

ProtocolNext == Main \/ IrqDeliver \/ ProtocolEnvironment

\* the session with a remote that follows the protocol; the CPU keeps
\* executing instructions (every instruction of Main moves pc), and a pending
\* interrupt is taken once the CPU unmasks interrupts
FairSpec ==
    /\ Init
    /\ [][ProtocolNext]_vars
    /\ WF_vars(Main)
    /\ SF_vars(IrqDeliver)

(* ======================= properties ======================= *)

\* the positions inside wait_for_notified
WaitPcs == {"w_disable", "w_tas", "w_wfi", "w_restore"}

\* the remote's kick is latched in the status register, or the handler has
\* already taken it and cleared the flag
KickArrived == BitAnd(ISR, IPI_MASK) # 0 \/ ~remote_nkicked

\* C1: no lost wakeup. Whenever the thread is inside wait_for_notified (at any
\* of its positions: before the disable, between the flag check and the wfi,
\* in the wfi, before the restore) and the remote's kick has arrived, the
\* wait eventually returns, given that the CPU keeps executing and a pending
\* interrupt is taken once interrupts are enabled again.
C1_NoLostWakeup == (pc \in WaitPcs /\ KickArrived) ~> (pc = "block_read")

\* the kick arrives after the flag check, while the CPU masks interrupts and
\* is about to execute wfi
C1_Witness ==
    /\ pc = "w_wfi"
    /\ cpuIrqMasked
    /\ remote_nkicked
    /\ BitAnd(ISR, IPI_MASK) # 0
    /\ outstanding

\* C2: at most one exchange is outstanding. A write to the trigger register
\* (in the loop or the final one) is made only when a wait_for_notified has
\* returned since the previous write to it.
C2_OneOutstanding == [][trigCount' # trigCount => ~outstanding]_vars

\* a second trigger has been issued
C2_Witness == trigCount = 2 /\ outstanding /\ pc = "w_disable"

\* C3: every call of the handler. With the channel's bit set in the status
\* register it writes exactly the channel mask to the status register (so
\* only that bit is cleared), clears remote_nkicked and returns
\* METAL_IRQ_HANDLED; with the bit clear it returns METAL_IRQ_NOT_HANDLED,
\* writes no register and leaves remote_nkicked as it was.
C3_HandlerCorrect ==
    [][IrqDeliver =>
         IF BitAnd(ISR, ipi_mask) # 0
         THEN /\ hret' = METAL_IRQ_HANDLED
              /\ hwrite' = ipi_mask
              /\ ISR' = BitClear(ISR, ipi_mask)
              /\ IMR' = IMR
              /\ ~remote_nkicked'
         ELSE /\ hret' = METAL_IRQ_NOT_HANDLED
              /\ hwrite' = NoWrite
              /\ ISR' = ISR
              /\ IMR' = IMR
              /\ remote_nkicked' = remote_nkicked]_vars

\* the handler has acknowledged the channel's bit while another source's bit
\* was latched too, and that bit is still latched
C3_Witness ==
    /\ hret = METAL_IRQ_HANDLED
    /\ hwrite = IPI_MASK
    /\ ~remote_nkicked
    /\ ISR = OTHER_IPI_BIT
    /\ pc \in WaitPcs

\* C4: a reply whose length field, as read into lbuf, differs from s - 8
\* aborts the session in that iteration: the iteration never goes on to the
\* measurement, its sample is not recorded (each accumulator holds the i - 1
\* samples of the earlier iterations), no report exists for size s, and from
\* then on no message is written, no doorbell is triggered, no sample is
\* recorded and no report is emitted.
C4_ReplyMismatchAborts ==
    /\ [](pc \in {"stop_timer", "stat_a2r", "stat_r2a"} => lbuf.len = s - HDR_SIZE)
    /\ [][(pc = "verify" /\ pc' # "verify" /\ lbuf.len # s - HDR_SIZE)
            => (abortKind' = "reply" /\ pc' = "out")]_vars
    /\ [](abortKind = "reply" =>
            /\ a2r.st_cnt = i - 1
            /\ r2a.st_cnt = i - 1
            /\ report = <<>>
            /\ \A k \in 1..Len(reported) : reported[k] # s)
    /\ [][abortKind = "reply" =>
            UNCHANGED <<msgWrites, trigCount, a2r, r2a, reported, report>>]_vars

\* the session has returned after a reply length mismatch in the second
\* iteration of a later size
C4_Witness ==
    /\ pc = "done"
    /\ abortKind = "reply"
    /\ lbuf.len # s - HDR_SIZE
    /\ s = 2 * PKG_SIZE_MIN
    /\ i = 2

\* C5: a session aborted by a write size mismatch or by a reply length
\* mismatch makes measure_shmem_latency, and with it shmem_latency_demo,
\* return a status other than 0.
C5_AbortReturnsNonZero ==
    (pc = "done" /\ abortKind \in {"write", "reply"}) => ret # 0

\* C6: once the control word has been written with DEMO_STATUS_START, it is
\* DEMO_STATUS_IDLE when shmem_latency_demo returns.
C6_IdleOnReturn ==
    (pc = "done" /\ startedWritten) => cntrl = DEMO_STATUS_IDLE

\* position k of the session's operations is op
IsOp(k, op) == k \in 1..Len(sessOps) /\ sessOps[k] = op

\* C7: when shmem_latency_demo has returned, the handler is not registered,
\* and if it was ever registered then the IPI interrupt was disabled (IDR
\* written, no IER written after it) before the handler was unregistered and
\* is still disabled.
C7_NoDanglingHandler ==
    pc = "done" =>
        /\ ~registered
        /\ \A k \in 1..Len(sessOps) :
             IsOp(k, "REG") =>
               /\ BitAnd(IMR, IPI_MASK) # 0
               /\ \E d, u \in 1..Len(sessOps) :
                    /\ k < d /\ d < u
                    /\ IsOp(d, "IDR")
                    /\ IsOp(u, "UNREG")
                    /\ \A m \in d..u : ~IsOp(m, "IER")

\* the session has returned after a failed measurement, the handler having
\* been registered
C7_Witness ==
    /\ pc = "done"
    /\ abortKind = "reply"
    /\ \E k \in 1..Len(sessOps) : IsOp(k, "REG")

\* the number of sizes from sz up to PKG_SIZE_MAX, doubling
RECURSIVE SizesFrom(_)
SizesFrom(sz) == IF sz > PKG_SIZE_MAX THEN 0 ELSE 1 + SizesFrom(2 * sz)

\* the last iteration of the last size has been measured
LastMeasured == (s = PKG_SIZE_MAX /\ i > ITERATIONS) \/ s > PKG_SIZE_MAX

\* C8: the control word is written with 1 before the first message write and
\* stays 1 until the last iteration of the last size has been measured; it
\* is written with 0 only then, in a session that did not abort; at most one
\* trigger is issued after that write, and a session that completes without
\* abort has issued exactly one, which makes (number of sizes x ITERATIONS)
\* + 1 triggers in total.
C8_SessionBracket ==
    /\ msgWrites > 0 => startedWritten
    /\ (startedWritten /\ ~LastMeasured) => cntrl = DEMO_STATUS_START
    /\ (startedWritten /\ cntrl = DEMO_STATUS_IDLE) =>
           (LastMeasured /\ abortKind = "none")
    /\ idleTrigs <= 1
    /\ (pc = "done" /\ startedWritten /\ abortKind = "none") =>
           /\ cntrl = DEMO_STATUS_IDLE
           /\ idleTrigs = 1
           /\ trigCount = SizesFrom(PKG_SIZE_MIN) * ITERATIONS + 1

\* a session has completed without abort
C8_Witness ==
    /\ pc = "done"
    /\ startedWritten
    /\ abortKind = "none"
    /\ Len(reported) = SizesFrom(PKG_SIZE_MIN)
    /\ idleTrigs = 1

\* the steps of one iteration in the order of the protocol: ARMED, SENT
\* (write, then doorbell), WAITING, RECEIVED (read, then verified), MEASURED
\* (one sample for each direction)
IterationOrder ==
    <<"ttc_reset", "shm_write", "ipi_trig", "wait_ret", "shm_read",
      "verify_ok", "stat_a2r", "stat_r2a">>

IsStep(op) == op # "ttc_stop"

\* C9: the steps made so far in the current iteration are the first steps of
\* IterationOrder, in that order (a failed verification taking the place of
\* the successful one and ending the iteration); an iteration that
\* completed made all of them; an iteration that aborted recorded no sample.
C9_IterationOrder ==
    LET o == SelectSeq(ops, IsStep)
    IN /\ Len(o) <= Len(IterationOrder)
       /\ \A k \in 1..Len(o) :
            \/ o[k] = IterationOrder[k]
            \/ k = 6 /\ Len(o) = 6 /\ o[k] = "verify_fail"
       /\ (pc = "iter_head" /\ i > 1) => o = IterationOrder
       /\ abortKind = "write" => o = <<"ttc_reset", "shm_write">>
       /\ abortKind = "reply" => (Len(o) = 6 /\ o[6] = "verify_fail")
       /\ abortKind # "none" =>
            \A k \in 1..Len(o) : o[k] \notin {"stat_a2r", "stat_r2a"}

\* the last iteration of a size has completed
C9_Witness ==
    /\ pc = "iter_head"
    /\ i = ITERATIONS + 1
    /\ ops = <<"ttc_reset", "shm_write", "ipi_trig", "wait_ret", "shm_read",
               "verify_ok", "ttc_stop", "stat_a2r", "stat_r2a">>

\* C10: handshake exclusion. The local side reads or writes a message zone
\* only when no trigger is outstanding; an outstanding trigger ends only with
\* a return of wait_for_notified that found the flag cleared by the handler;
\* and a read of the RX zone directly follows such a return.
C10_HandshakeExclusion ==
    /\ [][(msgReads' # msgReads \/ msgWrites' # msgWrites) => ~outstanding]_vars
    /\ [][(outstanding /\ ~outstanding') => ~remote_nkicked]_vars
    /\ [](\A k \in 1..Len(ops) :
            ops[k] = "shm_read" => (k > 1 /\ ops[k - 1] = "wait_ret"))

\* the RX zone has been read after the remote's kick was handled
C10_Witness ==
    /\ pc = "verify"
    /\ msgReads = 1
    /\ hret = METAL_IRQ_HANDLED
    /\ ~outstanding
    /\ unsolicited = 0

\* the message sizes of a session, in order
Sizes == <<16, 32, 64, 128, 256, 512, 1024>>

\* the positions inside the iteration loop, after its test
IterPcs ==
    {"reset_timer", "block_write", "trigger", "block_read", "verify",
     "stop_timer", "stat_a2r", "stat_r2a"} \cup WaitPcs

\* C11: the sizes reported are the first sizes of 16, 32, ..., 1024 in that
\* order, and all seven when a session ends without abort; inside the loops
\* s is the next of these sizes; every size runs exactly ITERATIONS exchanges
\* (at the head of iteration i of a size, ITERATIONS messages were written
\* and triggered for each earlier size and i - 1 for this one, and the
\* report is reached with i = ITERATIONS + 1); the header sent in iteration
\* i is {index i, len s - 8} with i in 1..ITERATIONS; and each accumulator
\* holds the samples of this size only, so it is STAT_INIT at i = 1.
C11_SizeSweep ==
    /\ Len(reported) <= Len(Sizes)
    /\ \A k \in 1..Len(reported) : reported[k] = Sizes[k]
    /\ (pc \in IterPcs \cup {"iter_head", "report"}) =>
           /\ Len(reported) < Len(Sizes)
           /\ s = Sizes[Len(reported) + 1]
    /\ pc \in IterPcs => i \in 1..ITERATIONS
    /\ pc = "iter_head" =>
           /\ i \in 1..(ITERATIONS + 1)
           /\ msgWrites = Len(reported) * ITERATIONS + i - 1
           /\ trigCount = Len(reported) * ITERATIONS + i - 1
           /\ a2r.st_cnt = i - 1
           /\ r2a.st_cnt = i - 1
           /\ i = 1 => (a2r = STAT_INIT /\ r2a = STAT_INIT)
    /\ pc = "report" => i = ITERATIONS + 1
    /\ (pc \in {"trigger"} \cup WaitPcs) =>
           /\ lbuf = Hdr(i, s - HDR_SIZE)
           /\ shmTx = Hdr(i, s - HDR_SIZE)
    /\ (pc = "done" /\ startedWritten /\ abortKind = "none") => reported = Sizes

\* the last message of a session that does not abort has been sent
C11_Witness ==
    /\ pc = "w_disable"
    /\ s = PKG_SIZE_MAX
    /\ i = ITERATIONS
    /\ shmTx = Hdr(ITERATIONS, 1016)
    /\ Len(reported) = 6

RECURSIVE SumOf(_)
SumOf(sq) == IF sq = <<>> THEN 0 ELSE Head(sq) + SumOf(Tail(sq))

\* C12: after update_stat has been applied to STAT_INIT with the K samples
\* of the sequence samples, st_cnt is K and st_sum is their sum; for K >= 1
\* st_min and st_max are samples, st_min <= every sample <= st_max; after one
\* sample st_min = st_max = that sample.
C12_StatInvariant ==
    /\ acc.st_cnt = Len(samples)
    /\ acc.st_sum = SumOf(samples)
    /\ Len(samples) >= 1 =>
           /\ \E k \in 1..Len(samples) : acc.st_min = samples[k]
           /\ \E k \in 1..Len(samples) : acc.st_max = samples[k]
           /\ \A k \in 1..Len(samples) :
                acc.st_min <= samples[k] /\ samples[k] <= acc.st_max
    /\ Len(samples) = 1 => (acc.st_min = samples[1] /\ acc.st_max = samples[1])

\* three samples with the smallest in the middle and the largest last
C12_Witness ==
    /\ Len(samples) = 3
    /\ samples[2] < samples[1]
    /\ samples[1] < samples[3]
    /\ acc.st_min = samples[2]
    /\ acc.st_max = samples[3]


\* C13: where the report of a size is emitted, both accumulators hold
\* ITERATIONS samples, so the average printed for a direction (sum times
\* NS_PER_TTC_TICK divided by ITERATIONS) is st_sum * NS_PER_TTC_TICK / st_cnt
\* of that direction's accumulator.
C13_AverageDivisor ==
    /\ pc = "report" => (a2r.st_cnt = ITERATIONS /\ r2a.st_cnt = ITERATIONS)
    /\ report # <<>> =>
           /\ a2r.st_cnt = ITERATIONS
           /\ r2a.st_cnt = ITERATIONS
           /\ report[1].a2r_avg = (a2r.st_sum * NS_PER_TTC_TICK) \div a2r.st_cnt
           /\ report[1].r2a_avg = (r2a.st_sum * NS_PER_TTC_TICK) \div r2a.st_cnt
           /\ report[1].a2r_min = a2r.st_min /\ report[1].a2r_max = a2r.st_max
           /\ report[1].r2a_min = r2a.st_min /\ report[1].r2a_max = r2a.st_max

\* the report of the second size, with unequal samples in one direction
C13_Witness ==
    /\ report # <<>>
    /\ report[1].size = 2 * PKG_SIZE_MIN
    /\ a2r.st_min < a2r.st_max
    /\ report[1].a2r_avg = (a2r.st_sum * NS_PER_TTC_TICK) \div a2r.st_cnt
    /\ report[1].r2a_avg = r2a.st_min * NS_PER_TTC_TICK


\* C14: a block write or block read that transfers another number of bytes
\* than the message size s ends the iteration at once: the doorbell is
\* triggered only after a write of s bytes, and the reply is accepted and
\* statistics samples are taken only after a read of s bytes.
C14_ShortTransferAborts ==
    /\ pc \in {"trigger"} \cup WaitPcs =>
           block_io(shmSize, SHM_BUFF_OFFSET_TX, s) = s
    /\ pc \in {"stop_timer", "stat_a2r", "stat_r2a"} =>
           block_io(shmSize, SHM_BUFF_OFFSET_RX, s) = s


\* C15: in every iteration the stop of the inbound counter directly follows
\* the return of wait_for_notified: the read of the reply and the length
\* check come after it.
C15_StopRightAfterWait ==
    \A k \in 1..Len(ops) :
        /\ ops[k] \in {"shm_read", "verify_ok", "verify_fail"} =>
               \E j \in 1..(k - 1) : ops[j] = "ttc_stop"
        /\ (ops[k] = "wait_ret" /\ k < Len(ops)) => ops[k + 1] = "ttc_stop"


\* some device or I/O region of the session cannot be acquired
DeviceUnavailable == ~(dev.shm_dev /\ dev.shm_io /\ dev.ttc_io /\ dev.ipi_io)

\* C16: when the shared-memory device or one of the three I/O regions cannot
\* be acquired, shmem_latency_demo returns -ENODEV (non-zero) and nothing of
\* the session happens: no setup step runs, no handler is registered, no
\* interrupt is enabled, the control word is not written, no message is
\* written and no doorbell is triggered.
C16_DeviceUnavailable ==
    DeviceUnavailable =>
        /\ pc \in {"start", "done"}
        /\ pc = "done" => (ret = -ENODEV /\ ret # 0)
        /\ sessOps = <<>>
        /\ ~registered
        /\ ~irqEnabled
        /\ ipi_mask = 0
        /\ ~startedWritten
        /\ cntrl = DEMO_STATUS_IDLE
        /\ trigCount = 0
        /\ msgWrites = 0
        /\ flagClears = 0

\* the return taken because only the IPI region is missing
C16_Witness ==
    /\ pc = "done"
    /\ dev.shm_dev /\ dev.shm_io /\ dev.ttc_io /\ ~dev.ipi_io
    /\ ret = -ENODEV
    /\ ~registered


\* C17: when the scratch buffer cannot be allocated, measure_shmem_latency
\* returns -1 (non-zero) before any device access of the engine: the control
\* word is not written, no timer register is accessed, no message is written
\* or read and no doorbell is triggered; the teardown of the session still
\* runs, so at the return the IPI is disabled and the handler unregistered.
C17_AllocationFailure ==
    abortKind = "alloc" =>
        /\ pc \in {"td_idr", "td_irq_disable", "td_unregister", "done"}
        /\ ret = -1 /\ ret # 0
        /\ ~startedWritten
        /\ cntrl = DEMO_STATUS_IDLE
        /\ ops = <<>>
        /\ msgWrites = 0
        /\ msgReads = 0
        /\ trigCount = 0
        /\ reported = <<>>
        /\ pc = "done" =>
               /\ ~registered
               /\ ~irqEnabled
               /\ BitAnd(IMR, IPI_MASK) = IPI_MASK
               /\ sessOps = <<"ARM", "IDR", "ISR", "REG", "IRQEN", "IER",
                              "IDR", "IRQDIS", "UNREG">>

\* the return after a failed allocation
C17_Witness ==
    /\ pc = "done"
    /\ abortKind = "alloc"
    /\ ret = -1
    /\ ~registered
    /\ ~startedWritten
    /\ Len(sessOps) = 9


C19_WaitConsumesClear ==
    [][/\ (waitReturns' = waitReturns + 1) =>
              (~remote_nkicked /\ remote_nkicked' /\ pc = "w_tas")
       /\ (pc = "trigger" /\ trigCount' = trigCount + 1 /\ unsolicited = 0) =>
              (remote_nkicked /\ remote_nkicked')
       /\ waitReturns' <= flagClears'
       /\ (unsolicited' = 0) => (flagClears' <= waitReturns' + 1)]_vars

\* the second return of the wait, after two handled interrupts and no
\* unsolicited kick, with the flag set again
C19_Witness ==
    /\ pc = "block_read"
    /\ waitReturns = 2
    /\ flagClears = 2
    /\ remote_nkicked
    /\ unsolicited = 0


\* the setup and teardown steps of a session, in the order of lines 297-324
SessionSteps == <<"ARM", "IDR", "ISR", "REG", "IRQEN", "IER", "IDR", "IRQDIS", "UNREG">>

\* the IPI interrupt can be delivered: its vector is enabled and, once the
\* session has written the disable register, its mask bit is clear
IpiEnabled ==
    \/ irqEnabled
    \/ (Len(sessOps) >= 2 /\ BitAnd(IMR, IPI_MASK) = 0)

\* C20: the setup and teardown steps happen in the order flag armed, IPI
\* disabled, latched status cleared, handler registered, vector enabled, IPI
\* enabled, ..., IPI disabled, vector disabled, handler unregistered; so the
\* handler is registered whenever the IPI interrupt is enabled, the IPI is
\* disabled whenever the handler has been unregistered, and before the first
\* kick of the remote the flag stays armed: a status bit latched before the
\* session never clears it.
C20_SetupTeardownOrder ==
    /\ Len(sessOps) <= Len(SessionSteps)
    /\ \A k \in 1..Len(sessOps) : sessOps[k] = SessionSteps[k]
    /\ IpiEnabled => registered
    /\ registered = (Len(sessOps) \in 4..8)
    /\ Len(sessOps) \in {2, 3, 4, 5, 7, 8, 9} => BitAnd(IMR, IPI_MASK) = IPI_MASK
    /\ (pc \in {"register", "irq_enable", "ier"} /\ unsolicited = 0) =>
           BitAnd(ISR, IPI_MASK) = 0
    /\ (Len(sessOps) >= 1 /\ trigCount = 0 /\ unsolicited = 0) =>
           (remote_nkicked /\ flagClears = 0)

\* setup is complete with the IPI enabled and the handler registered, and the
\* flag is still armed
C20_Witness ==
    /\ pc = "alloc"
    /\ sessOps = <<"ARM", "IDR", "ISR", "REG", "IRQEN", "IER">>
    /\ registered
    /\ irqEnabled
    /\ BitAnd(IMR, IPI_MASK) = 0
    /\ BitAnd(ISR, IPI_MASK) = 0
    /\ remote_nkicked
    /\ flagClears = 0

====
